---- MODULE Spec2Model ----
(***************************************************************************)
(* A model of app.py: the two-pass rewriter that replaces class names and  *)
(* IDs in index.html, script.js and style.css by random tokens.            *)
(*                                                                         *)
(* Text is a sequence of one-character strings.  The regular expressions   *)
(* of the source are kept as patterns (sequences of items) and are matched *)
(* the way Python's re module matches them: leftmost, non-overlapping.     *)
(***************************************************************************)
EXTENDS Integers, Sequences, FiniteSets, TLC

(***************************************************************************)
(* Characters                                                              *)
(***************************************************************************)
dq == "\""
sq == "'"

\* string.ascii_letters
ascii_letters ==
  {"a", "b", "c", "d", "e", "f", "g", "h", "i", "j", "k", "l", "m",
   "n", "o", "p", "q", "r", "s", "t", "u", "v", "w", "x", "y", "z",
   "A", "B", "C", "D", "E", "F", "G", "H", "I", "J", "K", "L", "M",
   "N", "O", "P", "Q", "R", "S", "T", "U", "V", "W", "X", "Y", "Z"}

\* string.digits
digits == {"0", "1", "2", "3", "4", "5", "6", "7", "8", "9"}

\* \s of the re module (the characters of it that a text here can hold)
Whitespace == {" ", "\t", "\n", "\r", "\f"}

\* \w of the re module, which decides \b
WordChars == ascii_letters \cup digits \cup {"_"}

\* ["\'] in the patterns
Quotes == {dq, sq}

\* [a-zA-Z0-9_-] in the CSS scanner
CssNameChars == ascii_letters \cup digits \cup {"_", "-"}

\* (\s|[{:,]) in the CSS patterns: one character of either alternative
CssDelims == Whitespace \cup {"{", ":", ","}

(***************************************************************************)
(* Patterns.  An item consumes a literal text ("lit"), one character of a  *)
(* class ("one"), a maximal non-empty run of a class ("plus", the greedy   *)
(* +), or nothing ("wb", \b).                                              *)
(* In every pattern of the source the item after a + is a class disjoint   *)
(* from the repeated one, so giving back characters of the run can never   *)
(* produce a match and the maximal run is the only candidate.              *)
(***************************************************************************)
One(S) == [kind |-> "one", neg |-> FALSE, set |-> S, str |-> <<>>]

NoneOf(S) == [kind |-> "one", neg |-> TRUE, set |-> S, str |-> <<>>]

OneOrMore(it) == [it EXCEPT !.kind = "plus"]

\* . matches anything but a newline
AnyChar == NoneOf({"\n"})

WordBoundary == [kind |-> "wb", neg |-> FALSE, set |-> {}, str |-> <<>>]

\* a literal text, and re.escape(name): the text matches itself
Lit(str) == [kind |-> "lit", neg |-> FALSE, set |-> {}, str |-> str]

Accepts(it, c) == (c \in it.set) # it.neg

IsWordChar(s, i) == i >= 1 /\ i <= Len(s) /\ s[i] \in WordChars

\* \b between s[pos-1] and s[pos]
AtWordBoundary(s, pos) == IsWordChar(s, pos - 1) # IsWordChar(s, pos)

Min(S) == CHOOSE x \in S : \A y \in S : x <= y

\* the position after the maximal run of the class from pos on
RunEnd(it, s, pos) ==
  Min({j \in pos..(Len(s) + 1) : j > Len(s) \/ ~Accepts(it, s[j])})

\* The position after each item when items k.. match s from pos on, added
\* to ends; <<>> when they do not match.
RECURSIVE MatchFrom(_, _, _, _, _)
MatchFrom(items, s, pos, k, ends) ==
  IF k > Len(items) THEN ends
  ELSE LET it == items[k] IN
       CASE it.kind = "wb" ->
              IF AtWordBoundary(s, pos)
              THEN MatchFrom(items, s, pos, k + 1, Append(ends, pos))
              ELSE <<>>
         [] it.kind = "lit" ->
              LET e == pos + Len(it.str) IN
              IF /\ e <= Len(s) + 1
                 /\ \A i \in 1..Len(it.str) : s[pos + i - 1] = it.str[i]
              THEN MatchFrom(items, s, e, k + 1, Append(ends, e))
              ELSE <<>>
         [] it.kind = "one" ->
              IF pos <= Len(s) /\ Accepts(it, s[pos])
              THEN MatchFrom(items, s, pos + 1, k + 1, Append(ends, pos + 1))
              ELSE <<>>
         [] it.kind = "plus" ->
              LET e == RunEnd(it, s, pos) IN
              IF e > pos
              THEN MatchFrom(items, s, e, k + 1, Append(ends, e))
              ELSE <<>>

\* A pattern: its items and the item of each group (every group of the
\* source encloses one item).
Pattern(items, groups) == [items |-> items, groups |-> groups]

MatchAt(pat, s, pos) == MatchFrom(pat.items, s, pos, 1, <<>>)

\* the positions from pos on where the pattern matches
Matches(pat, s, pos) == {i \in pos..Len(s) : MatchAt(pat, s, i) # <<>>}

\* The text group g captured in a match that started at pos.
Group(pat, s, pos, ends, g) ==
  LET item == pat.groups[g]
      from == IF item = 1 THEN pos ELSE ends[item - 1]
  IN  SubSeq(s, from, ends[item] - 1)

\* A replacement template: literal texts and group references (\2).
Text(str) == <<[ref |-> 0, str |-> str]>>

Ref(g) == <<[ref |-> g, str |-> <<>>]>>

RECURSIVE Expand(_, _, _, _, _)
Expand(tmpl, pat, s, pos, ends) ==
  IF tmpl = <<>> THEN <<>>
  ELSE (IF Head(tmpl).ref = 0
        THEN Head(tmpl).str
        ELSE Group(pat, s, pos, ends, Head(tmpl).ref))
       \o Expand(Tail(tmpl), pat, s, pos, ends)

\* F(e) with e evaluated once, as Python evaluates an argument or the
\* right-hand side of an assignment before it goes on
Once(e, F(_)) == CHOOSE r \in {F(x) : x \in {e}} : TRUE

\* re.sub(pattern, repl, content): every leftmost non-overlapping match is
\* replaced by the expanded template, the rest is copied.  No pattern of
\* the source matches the empty text.
RECURSIVE SubFrom(_, _, _, _)
SubFrom(pat, tmpl, s, pos) ==
  Once(Matches(pat, s, pos), LAMBDA found :
    IF found = {} THEN SubSeq(s, pos, Len(s))
    ELSE Once(MatchAt(pat, s, Min(found)), LAMBDA ends :
           SubSeq(s, pos, Min(found) - 1)
           \o Expand(tmpl, pat, s, Min(found), ends)
           \o SubFrom(pat, tmpl, s, ends[Len(ends)])))

re_sub(pat, tmpl, s) ==
  Once(<<pat, tmpl, s>>, LAMBDA a : SubFrom(a[1], a[2], a[3], 1))

\* re.findall(pattern, content) as the set the callers make of it: the
\* tuple of groups of every leftmost non-overlapping match.
RECURSIVE FindFrom(_, _, _)
FindFrom(pat, s, pos) ==
  Once(Matches(pat, s, pos), LAMBDA found :
    IF found = {} THEN {}
    ELSE Once(MatchAt(pat, s, Min(found)), LAMBDA ends :
           {[g \in 1..Len(pat.groups) |-> Group(pat, s, Min(found), ends, g)]}
           \cup FindFrom(pat, s, ends[Len(ends)])))

re_findall(pat, s) == Once(<<pat, s>>, LAMBDA a : FindFrom(a[1], a[2], 1))

(***************************************************************************)
(* Literals of the source                                                  *)
(***************************************************************************)
s_class == <<"c", "l", "a", "s", "s", "=">>

s_className == <<"c", "l", "a", "s", "s", "N", "a", "m", "e", "=">>

s_id == <<"i", "d", "=">>

s_querySelector ==
  <<"q", "u", "e", "r", "y", "S", "e", "l", "e", "c", "t", "o", "r", "(">>

s_querySelectorAll ==
  <<"q", "u", "e", "r", "y", "S", "e", "l", "e", "c", "t", "o", "r",
    "A", "l", "l", "(">>

s_getElementsByClassName ==
  <<"g", "e", "t", "E", "l", "e", "m", "e", "n", "t", "s", "B", "y",
    "C", "l", "a", "s", "s", "N", "a", "m", "e", "(">>

s_getElementById ==
  <<"g", "e", "t", "E", "l", "e", "m", "e", "n", "t", "B", "y", "I", "d", "(">>

s_css == <<".", "c", "s", "s">>

(***************************************************************************)
(* generate_random_string                                                  *)
(***************************************************************************)
\* the default of the parameter length
DefaultLength == 8

\* random.choices draws k characters of ascii_letters + digits.  The model
\* follows two of the possible draws; each is a stream of characters of
\* which a call takes the first k.
SampleDraws ==
  {<<"m", "a", "i", "n", "M", "e", "n", "u", "Q", "w">>,
   <<"X", "q", "3", "k", "L", "m", "9", "Z", "p", "7">>}

\* a call that draws one character too few
generate_random_string_short(length) ==
  {SubSeq(d, 1, length - 1) : d \in SampleDraws}

\* the set of results a call can return
generate_random_string(length) == {SubSeq(d, 1, length) : d \in SampleDraws}

(***************************************************************************)
(* replace_classnames_ids: the seven substitutions made for one pair       *)
(***************************************************************************)
\* name=["\']old["\']  ->  name="new"
AttrPattern(name, old) ==
  Pattern(<<Lit(name), One(Quotes), Lit(old), One(Quotes)>>, <<>>)

AttrTemplate(name, new) == Text(name \o <<dq>> \o new \o <<dq>>)

\* \bfn\(["\'].old["\']\)  ->  fn(".new")      (the . is not escaped)
SelectorCallPattern(fn, old) ==
  Pattern(<<WordBoundary, Lit(fn), One(Quotes), AnyChar, Lit(old),
            One(Quotes), Lit(<<")">>)>>, <<>>)

SelectorCallTemplate(fn, new) ==
  Text(fn \o <<dq, ".">> \o new \o <<dq, ")">>)

\* \bfn\(["\']old["\']\)  ->  fn("new")
NameCallPattern(fn, old) ==
  Pattern(<<WordBoundary, Lit(fn), One(Quotes), Lit(old),
            One(Quotes), Lit(<<")">>)>>, <<>>)

NameCallTemplate(fn, new) == Text(fn \o <<dq>> \o new \o <<dq, ")">>)

Rule(pat, tmpl) == [pat |-> pat, tmpl |-> tmpl]

\* content = re.sub(...) for each rule in turn
RECURSIVE ApplyRules(_, _)
ApplyRules(rules, content) ==
  IF rules = <<>> THEN content
  ELSE Once(re_sub(Head(rules).pat, Head(rules).tmpl, content),
            LAMBDA c : ApplyRules(Tail(rules), c))

\* the substitutions of the loop body, in the order of the source
Substitutions(old_name, new_name) ==
  <<Rule(AttrPattern(s_class, old_name), AttrTemplate(s_class, new_name)),
    Rule(AttrPattern(s_className, old_name),
         AttrTemplate(s_className, new_name)),
    Rule(SelectorCallPattern(s_querySelector, old_name),
         SelectorCallTemplate(s_querySelector, new_name)),
    Rule(SelectorCallPattern(s_querySelectorAll, old_name),
         SelectorCallTemplate(s_querySelectorAll, new_name)),
    Rule(NameCallPattern(s_getElementsByClassName, old_name),
         NameCallTemplate(s_getElementsByClassName, new_name)),
    Rule(AttrPattern(s_id, old_name), AttrTemplate(s_id, new_name)),
    Rule(NameCallPattern(s_getElementById, old_name),
         NameCallTemplate(s_getElementById, new_name))>>

ReplaceOne(content, old_name, new_name) ==
  ApplyRules(Substitutions(old_name, new_name), content)

\* replacements is the dict as the sequence of its items, in iteration
\* order: <<old_name, new_name>> pairs with distinct old names.
RECURSIVE replace_classnames_ids(_, _)
replace_classnames_ids(content, replacements) ==
  IF replacements = <<>> THEN content
  ELSE replace_classnames_ids(
         ReplaceOne(content, Head(replacements)[1], Head(replacements)[2]),
         Tail(replacements))

(***************************************************************************)
(* replace_classnames_ids_css                                              *)
(***************************************************************************)
\* lead(old)(\s|[{:,])  ->  lead new \2
CssPattern(lead, old) ==
  Pattern(<<Lit(<<lead>>), Lit(old), One(CssDelims)>>, <<2, 3>>)

CssTemplate(lead, new) == Text(<<lead>> \o new) \o Ref(2)

CssSubstitutions(old_name, new_name) ==
  <<Rule(CssPattern(".", old_name), CssTemplate(".", new_name)),
    Rule(CssPattern("#", old_name), CssTemplate("#", new_name))>>

ReplaceOneCss(content, old_name, new_name) ==
  ApplyRules(CssSubstitutions(old_name, new_name), content)

RECURSIVE replace_classnames_ids_css(_, _)
replace_classnames_ids_css(content, replacements) ==
  IF replacements = <<>> THEN content
  ELSE replace_classnames_ids_css(
         ReplaceOneCss(content, Head(replacements)[1], Head(replacements)[2]),
         Tail(replacements))

(***************************************************************************)
(* find_classnames_ids and find_classnames_ids_css                         *)
(***************************************************************************)
\* name=["\']([^"\']+)["\']
FindAttrPattern(name) ==
  Pattern(<<Lit(name), One(Quotes), OneOrMore(NoneOf(Quotes)), One(Quotes)>>,
          <<3>>)

\* fn\(["\'].([^"\']+)["\']\)
FindSelectorCallPattern(fn) ==
  Pattern(<<Lit(fn), One(Quotes), AnyChar, OneOrMore(NoneOf(Quotes)),
            One(Quotes), Lit(<<")">>)>>, <<4>>)

\* fn\(["\']([^"\']+)["\']\)
FindNameCallPattern(fn) ==
  Pattern(<<Lit(fn), One(Quotes), OneOrMore(NoneOf(Quotes)),
            One(Quotes), Lit(<<")">>)>>, <<3>>)

\* lead([a-zA-Z0-9_-]+)(\s|[{:,])
FindCssPattern(lead) ==
  Pattern(<<Lit(<<lead>>), OneOrMore(One(CssNameChars)), One(CssDelims)>>,
          <<2, 3>>)

\* findall with one group gives the captured texts
Captured(pat, content) == {m[1] : m \in re_findall(pat, content)}

\* the pair (classnames, ids)
find_classnames_ids(content) ==
  LET classnames    == Captured(FindAttrPattern(s_class), content)
      ids           == Captured(FindAttrPattern(s_id), content)
      classnames_js ==
        Captured(FindSelectorCallPattern(s_querySelector), content)
        \cup Captured(FindSelectorCallPattern(s_querySelectorAll), content)
        \cup Captured(FindNameCallPattern(s_getElementsByClassName), content)
      ids_js        == Captured(FindNameCallPattern(s_getElementById), content)
  IN  <<classnames \cup classnames_js, ids \cup ids_js>>

\* findall with two groups gives (name, delimiter) tuples; the name is kept
find_classnames_ids_css(content) ==
  LET classnames == re_findall(FindCssPattern("."), content)
      ids        == re_findall(FindCssPattern("#"), content)
  IN  <<{m[1] : m \in classnames}, {m[1] : m \in ids}>>

(***************************************************************************)
(* The files: the list of line 113, and the contents the model starts from *)
(***************************************************************************)
index_html == <<"i", "n", "d", "e", "x", ".", "h", "t", "m", "l">>

script_js == <<"s", "c", "r", "i", "p", "t", ".", "j", "s">>

style_css == <<"s", "t", "y", "l", "e", ".", "c", "s", "s">>

files == <<index_html, script_js, style_css>>

\* file_path.endswith(suffix)
endswith(path, suffix) ==
  /\ Len(path) >= Len(suffix)
  /\ SubSeq(path, Len(path) - Len(suffix) + 1, Len(path)) = suffix

\* identifiers of the sample files; mainMenu has the shape of a token
hero == <<"h", "e", "r", "o">>

nav == <<"n", "a", "v">>

mainMenu == <<"m", "a", "i", "n", "M", "e", "n", "u">>

\* name=qXq, fn(q sel X q) and <div attrs>
Attr(name, q, X) == name \o <<q>> \o X \o <<q>>

Call(fn, q, sel, X) == fn \o <<q>> \o sel \o X \o <<q, ")">>

Tag(attrs) == <<"<", "d", "i", "v", " ">> \o attrs \o <<">">>

HtmlSamples ==
  {Tag(Attr(s_class, dq, hero)),
   Tag(Attr(s_class, sq, hero) \o <<" ">> \o Attr(s_id, dq, nav)),
   Tag(Attr(s_className, dq, hero)),
   Tag(Attr(s_id, sq, mainMenu))}

JsSamples ==
  {Call(s_getElementById, sq, <<>>, nav) \o <<";">>
     \o Call(s_querySelector, dq, <<".">>, hero),
   Call(s_querySelector, dq, <<"#">>, nav),
   Call(s_querySelectorAll, sq, <<".">>, hero) \o <<";">>
     \o Call(s_getElementsByClassName, dq, <<>>, mainMenu)}

CssSamples ==
  {<<".">> \o hero
     \o <<" ", "{", " ", "c", "o", "l", "o", "r", ":", " ", "r", "e", "d",
          ";", " ", "}", "\n", "#">>
     \o nav \o <<",", " ", "p", " ", "{", "}">>,
   <<".">> \o mainMenu \o <<":", "h", "o", "v", "e", "r", " ", "{", "}">>}

(***************************************************************************)
(* process_files as a state machine                                        *)
(***************************************************************************)
\* how many times the program is run on the same files
MaxRuns == 2

\* how many opens the environment lets fail
MaxErrors == 2

VARIABLES
  fs,               \* the content of each file on disk
  pc,               \* where process_files is: scan, map, rewrite, finish, done
  idx,              \* the position of the current loop in files
  all_classnames,   \* the set all_classnames
  all_ids,          \* the set all_ids
  replacements,     \* the dict replacements, as its items in order
  log,              \* the lines logged by this run
  failed,           \* the opens that failed: <<run, phase, file_path>>
  orig,             \* the content of each file when this run started
  prev,             \* the replacements of the run before
  run               \* the number of this run

vars == <<fs, pc, idx, all_classnames, all_ids, replacements, log, failed,
          orig, prev, run>>

FileSet == {files[i] : i \in 1..Len(files)}

Line(level, msg, file_path) == [level |-> level, msg |-> msg, file |-> file_path]

\* logging.error(...) of an except clause.  The clause for FileNotFoundError
\* and the clause for PermissionError differ only in the text before the
\* file name; the model keeps the level and the file.
ErrorLine(file_path) == Line("ERROR", "error", file_path)

Keys(repl) == {repl[i][1] : i \in 1..Len(repl)}

Values(repl) == {repl[i][2] : i \in 1..Len(repl)}

\* replacements[old_name]
Lookup(repl, old_name) ==
  repl[CHOOSE i \in 1..Len(repl) : repl[i][1] = old_name][2]

Init ==
  /\ fs \in {[f \in FileSet |-> CASE f = index_html -> h
                                  [] f = script_js -> j
                                  [] f = style_css -> c] :
               h \in HtmlSamples, j \in JsSamples, c \in CssSamples}
  /\ orig = fs
  /\ pc = "scan"
  /\ idx = 1
  /\ all_classnames = {}
  /\ all_ids = {}
  /\ replacements = <<>>
  /\ log = <<>>
  /\ failed = {}
  /\ prev = <<>>
  /\ run = 1

\* the orders in which a for loop can visit the set S
Orders(S) ==
  {o \in [1..Cardinality(S) -> S] :
     \A i, j \in 1..Cardinality(S) : o[i] = o[j] => i = j}

\* for name in names: if name not in replacements:
\*     replacements[name] = generate_random_string()
\* with token[name] the string that call returns
RECURSIVE AddReplacements(_, _, _)
AddReplacements(repl, names, token) ==
  IF names = <<>> THEN repl
  ELSE AddReplacements(
         IF Head(names) \in Keys(repl) THEN repl
         ELSE Append(repl, <<Head(names), token[Head(names)]>>),
         Tail(names), token)

\* the loop variable moves on; after the last file the phase ends
Advance(next) ==
  IF idx < Len(files)
  THEN /\ idx' = idx + 1
       /\ pc' = pc
  ELSE /\ idx' = 1
       /\ pc' = next

\* an except clause that leaves the loop
AfterCaughtBreak(next) ==
  /\ idx' = 1
  /\ pc' = next

\* after an except clause the for loop goes on with the next file
AfterCaught(next) == Advance(next)

\* lines 66-80: one iteration of the first pass
ScanFile ==
  /\ pc = "scan"
  /\ LET file_path == files[idx]
         scanning  == Line("DEBUG", "Scanning file", file_path)
     IN  \/ /\ LET content == fs[file_path]
                   found   == IF endswith(file_path, s_css)
                              THEN find_classnames_ids_css(content)
                              ELSE find_classnames_ids(content)
               IN  /\ all_classnames' = all_classnames \cup found[1]
                   /\ all_ids' = all_ids \cup found[2]
            /\ log' = Append(log, scanning)
            /\ UNCHANGED failed
            /\ Advance("map")
         \/ \* open(file_path, 'r') raised one of the two exceptions caught
            /\ Cardinality(failed) < MaxErrors
            /\ failed' = failed \cup {<<run, "scan", file_path>>}
            /\ log' = log \o <<scanning, ErrorLine(file_path)>>
            /\ UNCHANGED <<all_classnames, all_ids>>
            /\ AfterCaught("map")
  /\ UNCHANGED <<fs, replacements, orig, prev, run>>

\* lines 83-90: the replacements dictionary
CreateReplacements ==
  /\ pc = "map"
  /\ \E classes \in Orders(all_classnames), ids \in Orders(all_ids) :
       \E token \in [all_classnames \cup all_ids
                       -> generate_random_string(DefaultLength)] :
         replacements' =
           AddReplacements(AddReplacements(<<>>, classes, token), ids, token)
  /\ log' = Append(log, Line("DEBUG", "Replacements dictionary", <<>>))
  /\ pc' = "rewrite"
  /\ UNCHANGED <<fs, idx, all_classnames, all_ids, failed, orig, prev, run>>

\* lines 93-108: one iteration of the second pass
ProcessFile ==
  /\ pc = "rewrite"
  /\ LET file_path  == files[idx]
         processing == Line("DEBUG", "Processing file", file_path)
         content    == IF endswith(file_path, s_css)
                       THEN replace_classnames_ids_css(fs[file_path],
                                                       replacements)
                       ELSE replace_classnames_ids(fs[file_path], replacements)
     IN  \/ /\ fs' = [fs EXCEPT ![file_path] = content]
            /\ log' = log \o <<processing,
                               Line("DEBUG", "Processed file", file_path)>>
            /\ UNCHANGED failed
            /\ Advance("finish")
         \/ \* open(file_path, 'r') or, the file read, open(file_path, 'w')
            \* raised one of the two exceptions caught: nothing is written
            /\ Cardinality(failed) < MaxErrors
            /\ failed' = failed \cup {<<run, "rewrite", file_path>>}
            /\ log' = log \o <<processing, ErrorLine(file_path)>>
            /\ UNCHANGED fs
            /\ AfterCaught("finish")
  /\ UNCHANGED <<all_classnames, all_ids, replacements, orig, prev, run>>

\* line 110
Finish ==
  /\ pc = "finish"
  /\ log' = Append(log, Line("INFO", "Class names and IDs have been replaced",
                             <<>>))
  /\ pc' = "done"
  /\ UNCHANGED <<fs, idx, all_classnames, all_ids, replacements, failed,
                 orig, prev, run>>

\* the program is run again on the files it left (line 116, a new process)
Rerun ==
  /\ pc = "done"
  /\ run < MaxRuns
  /\ run' = run + 1
  /\ pc' = "scan"
  /\ idx' = 1
  /\ all_classnames' = {}
  /\ all_ids' = {}
  /\ replacements' = <<>>
  /\ log' = <<>>
  /\ orig' = fs
  /\ prev' = replacements
  /\ UNCHANGED <<fs, failed>>

\* one run of the program
Next == ScanFile \/ CreateReplacements \/ ProcessFile \/ Finish

Spec == Init /\ [][Next]_vars

\* the program runs its steps one after the other and does not stop midway
FairSpec == Spec /\ WF_vars(Next)

\* up to MaxRuns runs, each on the files the run before left
NextRerun == Next \/ Rerun

Contains(s, sub) ==
  \E i \in 1..(Len(s) - Len(sub) + 1) : SubSeq(s, i, i + Len(sub) - 1) = sub

\* the second run is followed on a small project: one class and one id
InitRerun ==
  /\ Init
  /\ fs[index_html] \in {Tag(Attr(s_class, dq, hero)),
                         Tag(Attr(s_className, dq, hero))}
  /\ fs[script_js] = Call(s_getElementById, sq, <<>>, nav) \o <<";">>
                       \o Call(s_querySelector, dq, <<".">>, hero)
  /\ Contains(fs[style_css], <<".">> \o hero)

SpecRerun == InitRerun /\ [][NextRerun]_vars

(***************************************************************************)
(* Vocabulary of the properties                                            *)
(***************************************************************************)
IsCss(f) == endswith(f, s_css)

\* the opens of f succeeded in this run
Scanned(f) == <<run, "scan", f>> \notin failed

Written(f) == <<run, "rewrite", f>> \notin failed

\* what the scanner of f's type finds in the content f had at the start
Found(f) ==
  IF IsCss(f) THEN find_classnames_ids_css(orig[f])
  ELSE find_classnames_ids(orig[f])

\* what the rewriter of f's type makes of a content
Rewritten(f, content, repl) ==
  IF IsCss(f) THEN replace_classnames_ids_css(content, repl)
  ELSE replace_classnames_ids(content, repl)

RewrittenOne(f, content, old_name, new_name) ==
  IF IsCss(f) THEN ReplaceOneCss(content, old_name, new_name)
  ELSE ReplaceOne(content, old_name, new_name)

RulesOf(f, old_name, new_name) ==
  IF IsCss(f) THEN CssSubstitutions(old_name, new_name)
  ELSE Substitutions(old_name, new_name)

\* old_name occurs in the content in one of the forms the rewriter knows
Occurs(f, content, old_name) ==
  \E r \in 1..Len(RulesOf(f, old_name, <<>>)) :
    Matches(RulesOf(f, old_name, <<>>)[r].pat, content, 1) # {}

\* the identifiers of the sample files
Names == {hero, nav, mainMenu}

MapBuilt == pc \in {"rewrite", "finish", "done"}

Done == pc = "done"

(***************************************************************************)
(* C2                                                                      *)
(***************************************************************************)
\* the distinct identifiers the scan phase found in the files it could read
Identifiers ==
  UNION {Found(f)[1] \cup Found(f)[2] : f \in {g \in FileSet : Scanned(g)}}

IsToken(str) ==
  /\ Len(str) = 8
  /\ \A i \in 1..Len(str) : str[i] \in ascii_letters \cup digits

\* C2: once the replacements dictionary is built it has exactly one entry
\* for each distinct identifier found by the scan (class names and IDs
\* taken together), and every value is 8 letters or digits.
C2_OneTokenPerIdentifier ==
  MapBuilt =>
    /\ Len(replacements) = Cardinality(Identifiers)
    /\ Keys(replacements) = Identifiers
    /\ \A i \in 1..Len(replacements) : IsToken(replacements[i][2])

\* a run that mapped three identifiers, one of them both a class and an id
C2_Witness ==
  /\ Done
  /\ Len(replacements) = 3
  /\ all_classnames \cap all_ids # {}

(***************************************************************************)
(* C3                                                                      *)
(***************************************************************************)
ErrorLines(f) ==
  Cardinality({i \in 1..Len(log) : log[i].level = "ERROR" /\ log[i].file = f})

FailedOpens(f) == Cardinality({e \in failed : e[1] = run /\ e[3] = f})

HasLine(msg, f) == \E i \in 1..Len(log) : log[i].msg = msg /\ log[i].file = f

\* what a finished run has done whatever opens failed
ErrorsTolerated ==
  /\ log[Len(log)].level = "INFO"
  /\ \A f \in FileSet :
       /\ ErrorLines(f) = FailedOpens(f)
       /\ HasLine("Scanning file", f)
       /\ HasLine("Processing file", f)
       /\ Scanned(f) => /\ Found(f)[1] \subseteq all_classnames
                        /\ Found(f)[2] \subseteq all_ids
       /\ Written(f) => /\ HasLine("Processed file", f)
                        /\ fs[f] = Rewritten(f, orig[f], replacements)
       /\ ~Written(f) => fs[f] = orig[f]

\* C3: whichever opens fail with file-not-found or permission-denied, in
\* the scan phase, the rewrite phase or both, the run logs one error for
\* each, still scans and rewrites every other file, and always reaches the
\* completion line.
C3_FailingFilesAreSkipped == [](Done => ErrorsTolerated) /\ <>Done

\* a finished run in which the first file failed in both phases
C3_Witness ==
  /\ Done
  /\ <<run, "scan", index_html>> \in failed
  /\ <<run, "rewrite", index_html>> \in failed
  /\ fs[style_css] # orig[style_css]

(***************************************************************************)
(* C1                                                                      *)
(***************************************************************************)
\* every rule of every pair, for the rewriter of f's type
AllRules(f, repl) ==
  IF repl = <<>> THEN <<>>
  ELSE [n \in 1..(Len(repl) * Len(RulesOf(f, <<>>, <<>>))) |->
          LET per == Len(RulesOf(f, <<>>, <<>>))
              k   == ((n - 1) \div per) + 1
              r   == ((n - 1) % per) + 1
          IN  RulesOf(f, repl[k][1], repl[k][2])[r]]

\* The content with every occurrence of every key, in the forms the
\* rewriter knows, replaced by that key's own token: one pass over the
\* original text, so that what is written is not looked at again.
RECURSIVE RenameFrom(_, _, _)
RenameFrom(rules, s, pos) ==
  Once({<<i, r>> \in (pos..Len(s)) \X (1..Len(rules)) :
          MatchAt(rules[r].pat, s, i) # <<>>}, LAMBDA hits :
    IF hits = {} THEN SubSeq(s, pos, Len(s))
    ELSE LET at   == Min({h[1] : h \in hits})
             r    == Min({h[2] : h \in {g \in hits : g[1] = at}})
             ends == MatchAt(rules[r].pat, s, at)
         IN  SubSeq(s, pos, at - 1)
             \o Expand(rules[r].tmpl, rules[r].pat, s, at, ends)
             \o RenameFrom(rules, s, ends[Len(ends)]))

EachRenamed(f, content, repl) == RenameFrom(AllRules(f, repl), content, 1)

\* C1: when the run is over, in every file that was written every
\* occurrence of every key X has become the token of X: none is left as X
\* and none holds another token.
C1_SameTokenEverywhere ==
  Done => \A f \in FileSet :
            Written(f) => fs[f] = EachRenamed(f, orig[f], replacements)

(***************************************************************************)
(* C4                                                                      *)
(***************************************************************************)
\* the places <<i, k>> where . or # stands at i before key k and a delimiter
CssTargets(s, repl) ==
  {t \in (1..Len(s)) \X (1..Len(repl)) :
     LET i == t[1]
         X == repl[t[2]][1]
     IN  /\ s[i] \in {".", "#"}
         /\ i + Len(X) + 1 <= Len(s)
         /\ SubSeq(s, i + 1, i + Len(X)) = X
         /\ s[i + Len(X) + 1] \in CssDelims}

\* the text with the name at every target replaced by its token and every
\* other character, the . or # and the delimiter included, copied
RECURSIVE CssExpected(_, _, _)
CssExpected(s, repl, pos) ==
  LET later == {t \in CssTargets(s, repl) : t[1] >= pos} IN
  IF later = {} THEN SubSeq(s, pos, Len(s))
  ELSE LET i == Min({t[1] : t \in later})
           k == Min({t[2] : t \in {u \in later : u[1] = i}})
       IN  SubSeq(s, pos, i) \o repl[k][2]
           \o CssExpected(s, repl, i + Len(repl[k][1]) + 1)

\* C4: a CSS file that was written equals what it was with the name in
\* every .X or #X before a delimiter, X a key, replaced by the token of X;
\* the . or #, the delimiter and all the rest are unchanged.
C4_CssOnlyTargetsChange ==
  Done => \A f \in FileSet :
            (IsCss(f) /\ Written(f))
              => fs[f] = CssExpected(orig[f], replacements, 1)

(***************************************************************************)
(* C5                                                                      *)
(***************************************************************************)
Forms == {"class", "className", "id", "querySelector", "querySelectorAll",
          "getElementsByClassName", "getElementById"}

\* the text of an occurrence of X in a form, between quotes q
Occurrence(form, q, X) ==
  CASE form = "class" -> Attr(s_class, q, X)
    [] form = "className" -> Attr(s_className, q, X)
    [] form = "id" -> Attr(s_id, q, X)
    [] form = "querySelector" -> Call(s_querySelector, q, <<".">>, X)
    [] form = "querySelectorAll" -> Call(s_querySelectorAll, q, <<".">>, X)
    [] form = "getElementsByClassName" ->
         Call(s_getElementsByClassName, q, <<>>, X)
    [] form = "getElementById" -> Call(s_getElementById, q, <<>>, X)

\* C5: in a file that is not CSS and was written, an occurrence of a key X
\* in any of the seven forms, in single or double quotes, has come out as
\* the same form holding the token of X in double quotes.
C5_DoubleQuotedToken ==
  Done => \A f \in FileSet : \A k \in 1..Len(replacements) :
            \A form \in Forms : \A q \in Quotes :
              (/\ ~IsCss(f)
               /\ Written(f)
               /\ Contains(orig[f], Occurrence(form, q, replacements[k][1])))
              => Contains(fs[f], Occurrence(form, dq, replacements[k][2]))

(***************************************************************************)
(* C6                                                                      *)
(***************************************************************************)
\* C6: a second run on the files the first run left is over only when it
\* has found every token the first run left in a file it could scan, has
\* mapped each to another token, and has changed every file it wrote in
\* which a key occurred.
C6_SecondRunRenamesAgain ==
  (Done /\ run = 2) =>
    /\ \A f \in FileSet : \A T \in Values(prev) :
         (Scanned(f) /\ Occurs(f, orig[f], T))
           => /\ T \in Keys(replacements)
              /\ Lookup(replacements, T) # T
    /\ \A f \in FileSet :
         (/\ Written(f)
          /\ \E k \in 1..Len(replacements) :
               Occurs(f, orig[f], replacements[k][1]))
           => fs[f] # orig[f]

(***************************************************************************)
(* C7                                                                      *)
(***************************************************************************)
\* C7: a name X that a scanned file holds as className="X" is returned by
\* the scanner and has an entry in the dictionary, and where the file was
\* written the attribute holds the token of X.
C7_ClassNameIsScanned ==
  Done => \A f \in FileSet : \A X \in Names :
            (/\ ~IsCss(f)
             /\ Scanned(f)
             /\ Contains(orig[f], Attr(s_className, dq, X)))
            => /\ X \in find_classnames_ids(orig[f])[1]
               /\ X \in Keys(replacements)
               /\ Written(f)
                    => Contains(fs[f], Attr(s_className, dq,
                                            Lookup(replacements, X)))

(***************************************************************************)
(* C8                                                                      *)
(***************************************************************************)
\* the items of the dictionary in every order
Reorderings(repl) ==
  {[i \in 1..Len(repl) |-> repl[o[i]]] : o \in Orders(1..Len(repl))}

\* C8: what the run wrote to a file is what the rewriter makes of the
\* original content with the pairs applied in any order.
C8_OrderDoesNotMatter ==
  Done => \A f \in FileSet :
            Written(f) => \A p \in Reorderings(replacements) :
                            Rewritten(f, orig[f], p) = fs[f]

(***************************************************************************)
(* C9                                                                      *)
(***************************************************************************)
\* longer names that contain X: X after or before one more character
Longer(X) == {<<c>> \o X : c \in {"#", "x", "-"}}
               \cup {X \o <<c>> : c \in {"x", "-", "2"}}

\* the occurrences of a name Y the claim lists, in a file of f's type
OccurrencesOf(f, Y) ==
  IF IsCss(f)
  THEN {<<".">> \o Y \o <<" ", "{">>, <<"#">> \o Y \o <<",">>}
  ELSE {Attr(s_class, dq, Y), Attr(s_id, dq, Y),
        Call(s_querySelector, dq, <<>>, Y),
        Call(s_getElementById, dq, <<>>, Y)}

\* C9: the substitution for a key X leaves every occurrence of a longer
\* name that contains X as it is.
C9_LongerNamesUntouched ==
  Done => \A f \in FileSet : \A k \in 1..Len(replacements) :
            \A Y \in Longer(replacements[k][1]) :
              \A o \in OccurrencesOf(f, Y) :
                Contains(orig[f], o)
                  => Contains(RewrittenOne(f, orig[f], replacements[k][1],
                                           replacements[k][2]), o)

(***************************************************************************)
(* C10                                                                     *)
(***************************************************************************)
\* X stands in the content as a class: in a class attribute, after the .
\* of a selector call, or as the argument of getElementsByClassName
IsClassIn(content, X) ==
  \E form \in {"class", "querySelector", "querySelectorAll",
               "getElementsByClassName"} :
    \E q \in Quotes : Contains(content, Occurrence(form, q, X))

\* C10: a querySelector or querySelectorAll call whose argument is c
\* followed by a name X, c not the . of a class selector, does not make X
\* a class name of the scan, and where the file was written the call still
\* holds c before the name.
C10_OnlyClassSelectors ==
  Done => \A f \in FileSet : \A X \in Names :
            \A fn \in {s_querySelector, s_querySelectorAll} :
              \A c \in {"#", "x"} : \A q \in Quotes :
                (/\ ~IsCss(f)
                 /\ Scanned(f)
                 /\ Contains(orig[f], Call(fn, q, <<c>>, X)))
                => /\ X \in find_classnames_ids(orig[f])[1]
                        => IsClassIn(orig[f], X)
                   /\ Written(f)
                        => \E q2 \in Quotes : Contains(fs[f], fn \o <<q2, c>>)

====
